---- MODULE Spec2Model ----
(***************************************************************************)
(* A model of dftio's parser/writer contract (src/dftio/io/parse.py), its  *)
(* VASP backend (src/dftio/io/vasp/vasp_parser.py) and the atomic-graph    *)
(* data model (src/dftio/data/AtomicDataDict.py).                          *)
(*                                                                         *)
(* Four specifications share the module:                                  *)
(*   SpecWrite  - the write entry point, its three serializers and the     *)
(*                backend registry, acting on a file system and one        *)
(*                key-value store;                                         *)
(*   SpecParse  - structure validation, the ase round trip and block       *)
(*                validation, applied to records drawn from bounded sets;  *)
(*   SpecGraph  - the with_* operations of the data model, applied to      *)
(*                graph records drawn from bounded sets;                   *)
(*   SpecStore  - processes appending frames to key-value stores with      *)
(*                write_lmdb, one step per transaction boundary.           *)
(* Each specification leaves the variables of the others at their idle     *)
(* values.                                                                 *)
(***************************************************************************)
EXTENDS Integers, Sequences, FiniteSets, TLC

VARIABLES
    backend,    \* SpecWrite: what the backend's three queries return
    fs,         \* SpecWrite: the paths (directories and files) that exist
    store,      \* SpecWrite: the key-value store, key -> pickled value
    ret,        \* SpecWrite: outcome of the last call
    last,       \* SpecWrite: the last call and its arguments
    pre,        \* SpecWrite: fs and store as they were before the last call
    ncalls,     \* SpecWrite: number of calls made
    srec,       \* SpecParse: the structure record handed to the parser
    sblocks,    \* SpecParse: the (ham, ovp, dm) the backend's get_blocks returns
    pres,       \* SpecParse: the last operation applied and its result
    ginput,     \* SpecGraph: the graph record as the caller built it
    grec,       \* SpecGraph: the caller's record, which the with_* functions update
    gbefore,    \* SpecGraph: grec as it was before the last call
    gres,       \* SpecGraph: the last call, its outcome, and whether it repeats the call before
    stores,     \* SpecStore: the store at each path, keyed by the pid in its name
    procs,      \* SpecStore: each writing process: its pid and where it is in write_lmdb
    lock,       \* SpecStore: the process inside a write transaction, 0 when none is
    puts        \* SpecStore: the puts committed so far, in order

wvars == <<backend, fs, store, ret, last, pre, ncalls>>
pvars == <<srec, sblocks, pres>>
gvars == <<ginput, grec, gbefore, gres>>
svars == <<stores, procs, lock, puts>>
vars == <<backend, fs, store, ret, last, pre, ncalls, srec, sblocks, pres,
          ginput, grec, gbefore, gres, stores, procs, lock, puts>>

(***************************************************************************)
(* Bounds of the model.                                                    *)
(***************************************************************************)
MaxFrames == 2      \* frames per source: 0..MaxFrames
MaxCalls == 1       \* calls made on one file system in SpecWrite
MaxAtoms == 2       \* atoms per structure: 0..MaxAtoms
MaxEdges == 2       \* pairs per relation of a graph record: 0..MaxEdges
MaxCells == 2       \* cells of a batched graph record: 2..MaxCells
MaxStoreCalls == 2  \* write_lmdb calls made by process 1 in SpecStore

(***************************************************************************)
(* Outcomes: a call returns or raises.                                     *)
(***************************************************************************)
Ok == [kind |-> "ok", exc |-> "", msg |-> <<>>]
Idle == [kind |-> "idle", exc |-> "", msg |-> <<>>]
Raise(exc, msg) == [kind |-> "raise", exc |-> exc, msg |-> msg]

\* Python's None, and a value that is not None.
None == [isNone |-> TRUE, val |-> <<>>]
Some(v) == [isNone |-> FALSE, val |-> v]

(***************************************************************************)
(* The key registry (dftio.data._keys).                                    *)
(***************************************************************************)
ATOMIC_NUMBERS_KEY == "atomic_numbers"
CELL_KEY == "cell"
POSITIONS_KEY == "pos"
PBC_KEY == "pbc"
ENERGY_EIGENVALUE_KEY == "eigenvalue"
KPOINT_KEY == "kpoint"

(***************************************************************************)
(* The backend.  Sources are indexed 0..NSources-1 (Parser.__getitem__).   *)
(* backend.nframes[idx] is the frame count of source idx; backend.blk and  *)
(* backend.eig say how get_blocks and get_eigenvalue behave.               *)
(***************************************************************************)
Sources == {0, 1}
BlkModes == {"lists", "none", "raise"}
EigModes == {"ok", "f64"}

\* Array values are symbolic slices: <<name, idx>> is the whole array of
\* source idx, <<name, idx, nf>> its frame nf.
get_structure(idx) ==
    LET n == backend.nframes[idx] IN
    [atomic_numbers |-> <<ATOMIC_NUMBERS_KEY, idx>>,
     cell |-> [f \in 1..n |-> <<CELL_KEY, idx, f - 1>>],
     pos |-> [f \in 1..n |-> <<POSITIONS_KEY, idx, f - 1>>],
     pbc |-> <<PBC_KEY, idx>>]

\* vasp_parser.py get_eigenvalue: float32 arrays, eigs of shape
\* (n_frame, nk, nb).  Mode "f64" is a backend that forgets the cast.
get_eigenvalue(idx) ==
    LET n == backend.nframes[idx] IN
         [ret |-> Ok,
          val |-> [eigenvalue |-> [shape |-> <<n, 2, 3>>,
                                   dtype |-> IF backend.eig = "f64" THEN "float64" ELSE "float32",
                                   frames |-> [f \in 1..n |-> <<ENERGY_EIGENVALUE_KEY, idx, f - 1>>]],
                   kpoint |-> [shape |-> <<2, 3>>, dtype |-> "float32",
                               data |-> <<KPOINT_KEY, idx>>]]]

\* One block list: a dict per frame.
BlockList(kind, idx) ==
    [f \in 1..backend.nframes[idx] |-> <<kind, idx, f - 1>>]

\* get_blocks: (ham, ovp, dm), each None unless requested; mode "none" is a
\* backend that returns None for everything, mode "raise" is the VASP
\* backend, which raises NotImplementedError.
get_blocks(idx, hamiltonian, overlap, density_matrix) ==
    CASE backend.blk = "raise" ->
            [ret |-> Raise("NotImplementedError", <<"VASP does not support block parsing yet.">>),
             ham |-> None, ovp |-> None, dm |-> None]
      [] backend.blk = "none" ->
            [ret |-> Ok, ham |-> None, ovp |-> None, dm |-> None]
      [] OTHER ->
            [ret |-> Ok,
             ham |-> IF hamiltonian THEN Some(BlockList("hamiltonian", idx)) ELSE None,
             ovp |-> IF overlap THEN Some(BlockList("overlap", idx)) ELSE None,
             dm |-> IF density_matrix THEN Some(BlockList("density_matrix", idx)) ELSE None]

\* get_basis is not a method of Parser; only a backend that parses blocks
\* defines it.  The VASP backend does not: AttributeError.
get_basis(idx) ==
    IF backend.blk = "raise"
    THEN [ret |-> Raise("AttributeError", <<"get_basis">>), val |-> <<>>]
    ELSE [ret |-> Ok, val |-> <<"basis", idx>>]

\* Parser.formula: the chemical formula of the source's atomic numbers, which
\* the model keeps symbolic; the directory name carries idx beside it.
formula(idx) == "formula"

(***************************************************************************)
(* Parser.check_eigenvalue                                                 *)
(***************************************************************************)
check_eigenvalue(eigstatus) ==
    LET eigs == eigstatus.eigenvalue
        kpts == eigstatus.kpoint
    IN  IF Len(eigs.shape) # 3
        THEN Raise("AssertionError", <<"The shape of eigenvalue should be (n_frame, n_kpt, n_band)">>)
        ELSE IF ~(Len(kpts.shape) = 2 /\ kpts.shape[1] = eigs.shape[2] /\ kpts.shape[2] = 3)
        THEN Raise("AssertionError", <<"The shape of kpoint should be (n_kpt, 3)">>)
        ELSE IF eigs.dtype # "float32"
        THEN Raise("AssertionError", <<"The dtype of eigenvalue should be float">>)
        ELSE IF kpts.dtype # "float32"
        THEN Raise("AssertionError", <<"The dtype of kpoint should be float">>)
        ELSE Ok

(***************************************************************************)
(* Paths.  A path is the sequence of its components; fs holds the paths of *)
(* the directories and files that exist.                                   *)
(***************************************************************************)
\* A component is a name, or a name made with a number: "<formula>.<idx>",
\* "data.<pid>.lmdb".
Name(name) == [name |-> name, num |-> -1]
Numbered(name, num) == [name |-> name, num |-> num]

Join(dir, comp) == Append(dir, comp)

\* os.makedirs(path, exist_ok=True): the directory and its parents.
makedirs(files, path) ==
    files \cup {SubSeq(path, 1, k) : k \in 1..Len(path)}

(***************************************************************************)
(* int.to_bytes(length=4, byteorder='big')                                 *)
(***************************************************************************)
to_bytes(n) ==
    <<(n \div 16777216) % 256, (n \div 65536) % 256, (n \div 256) % 256, n % 256>>

\* to_bytes raises OverflowError when n does not fit 4 bytes.
Fits4(n) == (n \div 16777216) < 256

(***************************************************************************)
(* pickle.  A Python dict is the sequence of its (key, value) items in     *)
(* insertion order; dumps wraps the items, loads rebuilds the mapping.     *)
(***************************************************************************)
dumps(items) == [pickled |-> items]

loads(b) ==
    LET items == b.pickled
        keys == {items[i][1] : i \in 1..Len(items)}
    IN  [k \in keys |-> LET i == CHOOSE j \in 1..Len(items) :
                                    items[j][1] = k /\ \A m \in (j + 1)..Len(items) : items[m][1] # k
                        IN  items[i][2]]

(***************************************************************************)
(* The key-value store: a function from keys to values.                    *)
(***************************************************************************)
EmptyStore == <<>>

Entries(st) == Cardinality(DOMAIN st)

\* txn.put(key, value): overwrite is py-lmdb's default.
Put(st, key, value) ==
    [k \in DOMAIN st \cup {key} |-> IF k = key THEN value ELSE st[k]]

(***************************************************************************)
(* Parser.write_struct                                                     *)
(***************************************************************************)
write_struct(out_dir, fmt, files) ==
    IF fmt = "dat"
    THEN [fs |-> files \cup {Join(out_dir, Name("cell.dat")), Join(out_dir, Name("positions.dat")),
                             Join(out_dir, Name("atomic_numbers.dat")), Join(out_dir, Name("pbc.dat"))},
          ret |-> Ok]
    ELSE IF fmt = "ase"
    THEN [fs |-> files \cup {Join(out_dir, Name("xdat.traj"))}, ret |-> Ok]
    ELSE [fs |-> files,
          ret |-> Raise("NotImplementedError", <<"Format: ", fmt, " is not implemented!">>)]

(***************************************************************************)
(* Parser.write_dat.  fl is the record of the four request flags.          *)
(***************************************************************************)
\* One container file: h5py.File(..., 'w') creates the file, then the loop
\* over range(len(blocks)) raises TypeError when blocks is None.
WriteContainer(out_dir, name, blocks, files) ==
    [fs |-> files \cup {Join(out_dir, name)},
     ret |-> IF blocks.isNone
             THEN Raise("TypeError", <<"object of type 'NoneType' has no len()">>)
             ELSE Ok]

WriteDatBlocks(idx, out_dir, fl, files) ==
    IF ~(fl.hamiltonian \/ fl.overlap \/ fl.density_matrix)
    THEN [fs |-> files, ret |-> Ok]
    ELSE
    LET f1 == files \cup {Join(out_dir, Name("basis.dat"))}
        basis == get_basis(idx)
        blocks == get_blocks(idx, fl.hamiltonian, fl.overlap, fl.density_matrix)
        h == IF fl.hamiltonian
             THEN WriteContainer(out_dir, Name("hamiltonians.h5"), blocks.ham, f1)
             ELSE [fs |-> f1, ret |-> Ok]
        o == IF fl.overlap
             THEN WriteContainer(out_dir, Name("overlaps.h5"), blocks.ovp, h.fs)
             ELSE [fs |-> h.fs, ret |-> Ok]
        d == IF fl.density_matrix
             THEN WriteContainer(out_dir, Name("density_matrices.h5"), blocks.dm, o.fs)
             ELSE [fs |-> o.fs, ret |-> Ok]
    IN  IF basis.ret.kind = "raise" THEN [fs |-> f1, ret |-> basis.ret]
        ELSE IF blocks.ret.kind = "raise" THEN [fs |-> f1, ret |-> blocks.ret]
        ELSE IF h.ret.kind = "raise" THEN h
        ELSE IF o.ret.kind = "raise" THEN o
        ELSE d

WriteDatEigen(idx, out_dir, fl, files) ==
    IF ~fl.eigenvalue
    THEN [fs |-> files, ret |-> Ok]
    ELSE
    LET eigstatus == get_eigenvalue(idx)
        chk == check_eigenvalue(eigstatus.val)
    IN  IF eigstatus.ret.kind = "raise" THEN [fs |-> files, ret |-> eigstatus.ret]
        ELSE IF chk.kind = "raise" THEN [fs |-> files, ret |-> chk]
        ELSE [fs |-> files \cup {Join(out_dir, Name("kpoints.npy")), Join(out_dir, Name("eigenvalues.npy"))},
              ret |-> Ok]

write_dat(idx, outroot, fmt, fl, files) ==
    LET out_dir == Join(outroot, Numbered(formula(idx), idx))
        f1 == makedirs(makedirs(files, outroot), out_dir)
        s == write_struct(out_dir, fmt, f1)
        e == WriteDatEigen(idx, out_dir, fl, s.fs)
        b == WriteDatBlocks(idx, out_dir, fl, e.fs)
    IN  IF s.ret.kind = "raise" THEN s
        ELSE IF e.ret.kind = "raise" THEN e
        ELSE b

(***************************************************************************)
(* Parser.write_hdf5                                                       *)
(***************************************************************************)
write_hdf5(idx, outroot, fl, files) == [fs |-> files, ret |-> Ok]

(***************************************************************************)
(* Parser.write_lmdb                                                       *)
(***************************************************************************)
Pid == 4242     \* os.getpid() of the writing process

\* A block list indexed by the frame: TypeError on None, IndexError past
\* the end.
FrameOf(blocks, nf) ==
    IF blocks.isNone
    THEN [ret |-> Raise("TypeError", <<"'NoneType' object is not subscriptable">>), val |-> <<>>]
    ELSE IF nf + 1 > Len(blocks.val)
    THEN [ret |-> Raise("IndexError", <<"list index out of range">>), val |-> <<>>]
    ELSE [ret |-> Ok, val |-> blocks.val[nf + 1]]

\* The items of data_dict for frame nf, in insertion order (lines 307-325).
FrameItems(idx, nf, fl, structure, eigstatus, blocks) ==
    LET base == <<<<ATOMIC_NUMBERS_KEY, structure.atomic_numbers>>,
                  <<CELL_KEY, structure.cell[nf + 1]>>,
                  <<POSITIONS_KEY, structure.pos[nf + 1]>>,
                  <<PBC_KEY, structure.pbc>>>>
        eigs == IF fl.eigenvalue
                THEN <<<<ENERGY_EIGENVALUE_KEY, eigstatus.eigenvalue.frames[nf + 1]>>,
                       <<KPOINT_KEY, eigstatus.kpoint.data>>>>
                ELSE <<>>
        h == FrameOf(blocks.ham, nf)
        o == FrameOf(blocks.ovp, nf)
        d == FrameOf(blocks.dm, nf)
        tags == <<<<"idx", idx>>, <<"nf", nf>>>>
    IN  IF fl.eigenvalue /\ nf + 1 > Len(eigstatus.eigenvalue.frames)
        THEN [ret |-> Raise("IndexError", <<"index out of bounds">>), items |-> <<>>]
        ELSE IF fl.hamiltonian /\ h.ret.kind = "raise" THEN [ret |-> h.ret, items |-> <<>>]
        ELSE IF fl.overlap /\ o.ret.kind = "raise" THEN [ret |-> o.ret, items |-> <<>>]
        ELSE IF fl.density_matrix /\ d.ret.kind = "raise" THEN [ret |-> d.ret, items |-> <<>>]
        ELSE [ret |-> Ok,
              items |-> base \o eigs
                        \o (IF fl.hamiltonian THEN <<<<"hamiltonian", h.val>>>> ELSE <<>>)
                        \o (IF fl.overlap THEN <<<<"overlap", o.val>>>> ELSE <<>>)
                        \o (IF fl.density_matrix THEN <<<<"density_matrix", d.val>>>> ELSE <<>>)
                        \o tags]

\* (mutant) the key is the index of the last record, not the count
NextKeyLastIndex(st) == to_bytes(IF Entries(st) = 0 THEN 0 ELSE Entries(st) - 1)

\* (mutant) keys counted from 1
NextKeyOffByOne(st) == to_bytes(Entries(st) + 1)

\* The key of the next record: the store's entry count, read inside the
\* write transaction (line 331), as 4 big-endian bytes (line 332).
NextKey(st) == to_bytes(Entries(st))

\* for nf in range(n_frames): one write transaction per frame.
RECURSIVE LmdbFrames(_, _, _, _, _, _, _, _)
LmdbFrames(nf, n_frames, idx, fl, structure, eigstatus, blocks, st) ==
    IF nf >= n_frames
    THEN [store |-> st, ret |-> Ok]
    ELSE LET d == FrameItems(idx, nf, fl, structure, eigstatus, blocks) IN
         IF d.ret.kind = "raise"
         THEN [store |-> st, ret |-> d.ret]
         ELSE IF ~Fits4(Entries(st))
         THEN [store |-> st, ret |-> Raise("OverflowError", <<"int too big to convert">>)]
         ELSE LmdbFrames(nf + 1, n_frames, idx, fl, structure, eigstatus, blocks,
                         Put(st, NextKey(st), dumps(d.items)))

write_lmdb(idx, outroot, fl, files, st) ==
    LET f1 == makedirs(files, outroot)
        out_dir == Join(outroot, Numbered("data.lmdb", Pid))
        structure == get_structure(idx)
        anyBlock == fl.hamiltonian \/ fl.overlap \/ fl.density_matrix
        blocks == get_blocks(idx, fl.hamiltonian, fl.overlap, fl.density_matrix)
        eigstatus == get_eigenvalue(idx)
        n_frames == Len(structure.pos)
        \* lmdb.open creates the environment directory and its two files
        f2 == f1 \cup {out_dir, Join(out_dir, Name("data.mdb")), Join(out_dir, Name("lock.mdb"))}
        loop == LmdbFrames(0, n_frames, idx, fl, structure, eigstatus.val, blocks, st)
    IN  IF anyBlock /\ blocks.ret.kind = "raise"
        THEN [fs |-> f1, store |-> st, ret |-> blocks.ret]
        ELSE IF fl.eigenvalue /\ eigstatus.ret.kind = "raise"
        THEN [fs |-> f1, store |-> st, ret |-> eigstatus.ret]
        ELSE [fs |-> f2, store |-> loop.store, ret |-> loop.ret]

(***************************************************************************)
(* Parser.write: dispatch on the format name.                              *)
(***************************************************************************)
\* (mutant) the destination directory is made before the dispatch
WriteMakedirsFirst(idx, outroot, format, fl, files, st) ==
    LET f1 == makedirs(files, outroot) IN
    IF format = "hdf5"
    THEN [fs |-> f1, store |-> st, ret |-> Ok]
    ELSE IF format \in {"dat", "ase"}
    THEN LET r == write_dat(idx, outroot, format, fl, f1) IN
         [fs |-> r.fs, store |-> st, ret |-> r.ret]
    ELSE IF format = "lmdb"
    THEN write_lmdb(idx, outroot, fl, f1, st)
    ELSE [fs |-> f1, store |-> st,
          ret |-> Raise("NotImplementedError", <<"Format: ", format, " is not implemented!">>)]

write(idx, outroot, format, fl, files, st) ==
    IF format = "hdf5"
    THEN LET r == write_hdf5(idx, outroot, fl, files) IN
         [fs |-> r.fs, store |-> st, ret |-> r.ret]
    ELSE IF format \in {"dat", "ase"}
    THEN LET r == write_dat(idx, outroot, format, fl, files) IN
         [fs |-> r.fs, store |-> st, ret |-> r.ret]
    ELSE IF format = "lmdb"
    THEN write_lmdb(idx, outroot, fl, files, st)
    ELSE [fs |-> files, store |-> st,
          ret |-> Raise("NotImplementedError", <<"Format: ", format, " is not implemented!">>)]

(***************************************************************************)
(* ParserRegister: the registry holds the names registered by the backend  *)
(* modules (vasp_parser.py registers "vasp").                              *)
(***************************************************************************)
Registered == {"vasp"}

ParserRegister(mode) ==
    IF mode \in Registered
    THEN Ok
    ELSE Raise("Exception", <<"Descriptor mode: ", mode, " is not registered!">>)

(***************************************************************************)
(* Idle values of the variables a specification does not use.              *)
(***************************************************************************)
ParseIdle == srec = <<>> /\ sblocks = <<>> /\ pres = <<>>

GraphIdle == ginput = <<>> /\ grec = <<>> /\ gbefore = <<>> /\ gres = <<>>

StoreIdle == stores = <<>> /\ procs = <<>> /\ lock = 0 /\ puts = <<>>

(***************************************************************************)
(* SpecWrite                                                               *)
(***************************************************************************)
Formats == {"hdf5", "dat", "ase", "lmdb", "xyz"}
Modes == {"vasp", "abacus", "siesta"}
Flags == [eigenvalue : BOOLEAN, hamiltonian : BOOLEAN, overlap : BOOLEAN,
          density_matrix : BOOLEAN]
NoFlags == [eigenvalue |-> FALSE, hamiltonian |-> FALSE, overlap |-> FALSE,
            density_matrix |-> FALSE]
OutRoot == <<Name("out")>>

NoCall == [op |-> "none", idx |-> -1, format |-> "", fl |-> NoFlags, mode |-> ""]

InitWrite ==
    /\ backend \in [nframes : [Sources -> 0..MaxFrames], blk : BlkModes, eig : EigModes]
    /\ fs = {}
    /\ store = EmptyStore
    /\ ret = Idle
    /\ last = NoCall
    /\ pre = [fs |-> {}, store |-> EmptyStore]
    /\ ncalls = 0
    /\ ParseIdle
    /\ GraphIdle
    /\ StoreIdle

WriteCall ==
    /\ ncalls < MaxCalls
    /\ \E idx \in Sources, format \in Formats, fl \in Flags :
          LET r == write(idx, OutRoot, format, fl, fs, store) IN
          /\ fs' = r.fs
          /\ store' = r.store
          /\ ret' = r.ret
          /\ last' = [op |-> "write", idx |-> idx, format |-> format, fl |-> fl, mode |-> ""]
    /\ pre' = [fs |-> fs, store |-> store]
    /\ ncalls' = ncalls + 1
    /\ UNCHANGED <<backend, pvars, gvars, svars>>

RegisterCall ==
    /\ ncalls < MaxCalls
    /\ \E mode \in Modes :
          /\ ret' = ParserRegister(mode)
          /\ last' = [op |-> "register", idx |-> -1, format |-> "", fl |-> NoFlags, mode |-> mode]
    /\ pre' = [fs |-> fs, store |-> store]
    /\ ncalls' = ncalls + 1
    /\ UNCHANGED <<backend, fs, store, pvars, gvars, svars>>

NextWrite == WriteCall \/ RegisterCall

SpecWrite == InitWrite /\ [][NextWrite]_vars

(***************************************************************************)
(* Claims checked under SpecWrite                                          *)
(***************************************************************************)
\* The value of a key read as a 4-byte big-endian unsigned integer.
BigEndianValue(key) == key[1] * 16777216 + key[2] * 65536 + key[3] * 256 + key[4]

IsKey4(key) == Len(key) = 4 /\ \A i \in 1..4 : key[i] \in 0..255

WroteLmdbOnFreshStore ==
    /\ last.op = "write" /\ last.format = "lmdb"
    /\ ret.kind = "ok"
    /\ pre.store = EmptyStore

\* C1: a completed write_lmdb on an empty store, for a source of n frames,
\* leaves exactly n entries; their keys are the 4-byte big-endian encodings
\* of 0..n-1, and the record under key k unpickles to a mapping with nf = k
\* and idx = the source index of the call.
C1_LmdbFreshStoreKeys ==
    WroteLmdbOnFreshStore =>
        LET n == backend.nframes[last.idx] IN
        /\ Entries(store) = n
        /\ \A key \in DOMAIN store : IsKey4(key)
        /\ {BigEndianValue(key) : key \in DOMAIN store} = 0..(n - 1)
        /\ \A key \in DOMAIN store :
              LET rec == loads(store[key]) IN
              /\ rec["nf"] = BigEndianValue(key)
              /\ rec["idx"] = last.idx

C1_Witness ==
    /\ WroteLmdbOnFreshStore
    /\ backend.nframes[last.idx] = 2
    /\ last.idx = 1
    /\ Entries(store) = 2

SupportedFormats == {"hdf5", "dat", "ase", "lmdb"}

Contains(msg, ident) == \E i \in 1..Len(msg) : msg[i] = ident

\* C2: asking for an unregistered backend name, or writing in a format
\* outside {hdf5, dat, ase, lmdb}, raises an error whose message contains
\* the offending identifier, and the call has created no directory, file or
\* store entry.
C2_UnknownNameFailsCleanly ==
    /\ (last.op = "register" /\ last.mode \notin Registered) =>
          /\ ret.kind = "raise"
          /\ Contains(ret.msg, last.mode)
          /\ fs = pre.fs /\ store = pre.store
    /\ (last.op = "write" /\ last.format \notin SupportedFormats) =>
          /\ ret.kind = "raise"
          /\ Contains(ret.msg, last.format)
          /\ fs = pre.fs /\ store = pre.store

C2_Witness ==
    /\ last.op = "write" /\ last.format = "xyz"
    /\ ret.exc = "NotImplementedError"
    /\ fs = {}

\* The directory of source idx under the destination root.
FrameDir(idx) == Join(OutRoot, Numbered(formula(idx), idx))

\* C3 (as claimed): a successful write in format hdf5 leaves the destination
\* directory, the frame's four structure dumps, one container file per
\* requested block type, and the basis description when any block type is
\* requested.
C3_Hdf5WritesFrame ==
    (last.op = "write" /\ last.format = "hdf5" /\ ret.kind = "ok") =>
        LET dir == FrameDir(last.idx) IN
        /\ OutRoot \in fs
        /\ {Join(dir, Name("cell.dat")), Join(dir, Name("positions.dat")),
            Join(dir, Name("atomic_numbers.dat")), Join(dir, Name("pbc.dat"))} \subseteq fs
        /\ last.fl.hamiltonian => Join(dir, Name("hamiltonians.h5")) \in fs
        /\ last.fl.overlap => Join(dir, Name("overlaps.h5")) \in fs
        /\ last.fl.density_matrix => Join(dir, Name("density_matrices.h5")) \in fs
        /\ (last.fl.hamiltonian \/ last.fl.overlap \/ last.fl.density_matrix) =>
              Join(dir, Name("basis.dat")) \in fs

(***************************************************************************)
(* Arrays.  An array is its shape, its dtype and its data, nested as the   *)
(* shape says.  Real values are integers: a float64 holds any of them, a   *)
(* float32 only the multiples of F32Step, and a cast to float32 rounds to  *)
(* the nearest of these.                                                   *)
(***************************************************************************)
F32Step == 2

RoundF32(v) == ((v + (F32Step \div 2)) \div F32Step) * F32Step

CastValue(v, dtype) == IF dtype = "float32" THEN RoundF32(v) ELSE v

RECURSIVE CastData(_, _, _)
CastData(data, rank, dtype) ==
    IF rank = 0
    THEN CastValue(data, dtype)
    ELSE [i \in 1..Len(data) |-> CastData(data[i], rank - 1, dtype)]

\* ndarray.astype(dtype)
astype(arr, dtype) ==
    [shape |-> arr.shape, dtype |-> dtype,
     data |-> CastData(arr.data, Len(arr.shape), dtype)]

\* arr[i] for a 0-based i: the sub-array along the first axis.
Row(arr, i) ==
    [shape |-> Tail(arr.shape), dtype |-> arr.dtype, data |-> arr.data[i + 1]]

\* np.array(list of equal arrays): a new first axis.
Stack(arrs, rowShape, dtype) ==
    [shape |-> <<Len(arrs)>> \o rowShape, dtype |-> dtype,
     data |-> [i \in 1..Len(arrs) |-> arrs[i].data]]

(***************************************************************************)
(* Parser.check_structure                                                  *)
(***************************************************************************)
Assertion(msg) == Raise("AssertionError", <<msg>>)

\* (mutant) the dtype of the atomic numbers is not checked
CheckStructureNoNumberDtype(structure) ==
    LET atomic_number == structure.atomic_numbers
        pos == structure.pos
        cell == structure.cell
        pbc == structure.pbc
    IN  IF ~(Len(pos.shape) = 3 /\ pos.shape[3] = 3)
        THEN Assertion("The shape of structure should be (n_frame, natom, 3)")
        ELSE IF ~(Len(cell.shape) = 3 /\ cell.shape[1] = pos.shape[1]
                  /\ cell.shape[2] = 3 /\ cell.shape[3] = 3)
        THEN Assertion("The shape of cell should be (n_frame, 3, 3)")
        ELSE IF ~(Len(atomic_number.shape) = 1 /\ atomic_number.shape[1] = pos.shape[2])
        THEN Assertion("The shape of atomic_number should be (natom,)")
        ELSE IF ~(Len(pbc.shape) = 1 /\ pbc.shape[1] = 3)
        THEN Assertion("The shape of pbc should be (3)")
        ELSE IF cell.dtype # "float32"
        THEN Assertion("The dtype of cell should be float")
        ELSE IF pos.dtype # "float32"
        THEN Assertion("The dtype of pos should be float")
        ELSE IF pbc.dtype # "bool"
        THEN Assertion("The dtype of pbc should be bool")
        ELSE Ok

check_structure(structure) ==
    LET atomic_number == structure.atomic_numbers
        pos == structure.pos
        cell == structure.cell
        pbc == structure.pbc
    IN  IF ~(Len(pos.shape) = 3 /\ pos.shape[3] = 3)
        THEN Assertion("The shape of structure should be (n_frame, natom, 3)")
        ELSE IF ~(Len(cell.shape) = 3 /\ cell.shape[1] = pos.shape[1]
                  /\ cell.shape[2] = 3 /\ cell.shape[3] = 3)
        THEN Assertion("The shape of cell should be (n_frame, 3, 3)")
        ELSE IF ~(Len(atomic_number.shape) = 1 /\ atomic_number.shape[1] = pos.shape[2])
        THEN Assertion("The shape of atomic_number should be (natom,)")
        ELSE IF ~(Len(pbc.shape) = 1 /\ pbc.shape[1] = 3)
        THEN Assertion("The shape of pbc should be (3)")
        ELSE IF atomic_number.dtype # "int32"
        THEN Assertion("The dtype of atomic_number should be int")
        ELSE IF cell.dtype # "float32"
        THEN Assertion("The dtype of cell should be float")
        ELSE IF pos.dtype # "float32"
        THEN Assertion("The dtype of pos should be float")
        ELSE IF pbc.dtype # "bool"
        THEN Assertion("The dtype of pbc should be bool")
        ELSE Ok

(***************************************************************************)
(* ase.Atoms(numbers, positions, pbc, cell): the library keeps the numbers *)
(* as int64, positions and cell as float64 and pbc as bool.                *)
(***************************************************************************)
Atoms(numbers, positions, pbc, cell) ==
    [numbers |-> astype(numbers, "int64"),
     positions |-> astype(positions, "float64"),
     pbc |-> astype(pbc, "bool"),
     cell |-> astype(cell, "float64")]

(***************************************************************************)
(* Parser.structure_to_ase                                                 *)
(***************************************************************************)
structure_to_ase(structure) ==
    LET chk == check_structure(structure)
        cell == structure.cell
        nframe == cell.shape[1]
    IN  IF chk.kind = "raise"
        THEN [ret |-> chk, val |-> <<>>]
        ELSE [ret |-> Ok,
              val |-> [i \in 1..nframe |->
                          Atoms(structure.atomic_numbers, Row(structure.pos, i - 1),
                                structure.pbc, Row(cell, i - 1))]]

(***************************************************************************)
(* Parser.ase_to_structure, for a list of ase.Atoms                        *)
(***************************************************************************)
\* (mutant) the cell is returned as ase keeps it, without the cast
AseToStructureNoCellCast(sys) ==
    IF Len(sys) = 0
    THEN [ret |-> Raise("IndexError", <<"list index out of range">>), val |-> <<>>]
    ELSE
    LET pbc == sys[1].pbc
        atom_numbs == sys[1].numbers
        pos == [i \in 1..Len(sys) |-> sys[i].positions]
        cell == [i \in 1..Len(sys) |-> sys[i].cell]
        structure ==
            [atomic_numbers |-> astype(atom_numbs, "int32"),
             pbc |-> pbc,
             pos |-> astype(Stack(pos, sys[1].positions.shape, "float64"), "float32"),
             cell |-> Stack(cell, sys[1].cell.shape, "float64")]
        chk == check_structure(structure)
    IN  IF chk.kind = "raise"
        THEN [ret |-> chk, val |-> <<>>]
        ELSE [ret |-> Ok, val |-> structure]

ase_to_structure(sys) ==
    IF Len(sys) = 0
    THEN \* pbc = sys[0].pbc
         [ret |-> Raise("IndexError", <<"list index out of range">>), val |-> <<>>]
    ELSE
    LET pbc == sys[1].pbc
        atom_numbs == sys[1].numbers
        pos == [i \in 1..Len(sys) |-> sys[i].positions]
        cell == [i \in 1..Len(sys) |-> sys[i].cell]
        structure ==
            [atomic_numbers |-> astype(atom_numbs, "int32"),
             pbc |-> pbc,
             pos |-> astype(Stack(pos, sys[1].positions.shape, "float64"), "float32"),
             cell |-> astype(Stack(cell, sys[1].cell.shape, "float64"), "float32")]
        chk == check_structure(structure)
    IN  IF \E i \in 1..Len(sys) : sys[i].pbc.data # pbc.data
        THEN [ret |-> Assertion("The input system is not a list of ase.Atoms object with same PBC!"),
              val |-> <<>>]
        ELSE IF \E i \in 1..Len(sys) : sys[i].numbers.data # atom_numbs.data
        THEN [ret |-> Assertion("The input system is not a list of ase.Atoms object with same atomic numbers!"),
              val |-> <<>>]
        ELSE IF chk.kind = "raise"
        THEN [ret |-> chk, val |-> <<>>]
        ELSE [ret |-> Ok, val |-> structure]

\* ase_to_structure(structure_to_ase(structure))
RoundTrip(structure) ==
    LET a == structure_to_ase(structure) IN
    IF a.ret.kind = "raise" THEN [ret |-> a.ret, val |-> <<>>]
    ELSE ase_to_structure(a.val)

(***************************************************************************)
(* Parser.check_blocks.  ham, ovp and dm are what get_blocks returned and  *)
(* structure what get_structure returned; a block list is None or a        *)
(* sequence with one element per frame, an element being a dict from pair  *)
(* keys to the dtype of the block, or something that is not a dict.        *)
(***************************************************************************)
OnSiteKey == "0_0_0_0_0"

DictOf(d) == [isDict |-> TRUE, d |-> d]
NotADict == [isDict |-> FALSE, d |-> <<>>]

\* dict.get(key) is not None
HasKey(elem, key) == key \in DOMAIN elem.d

check_blocks(ham, ovp, dm, structure, fl) ==
    LET n_frame == structure.pos.shape[1]
        h == IF ~fl.hamiltonian THEN Ok
             ELSE IF ham.isNone
             THEN Assertion("Hamiltonian should not be None")
             ELSE IF Len(ham.val) # n_frame
             THEN Assertion("The number of hamiltonian blocks should be equal to the number of frames")
             ELSE IF \E i \in 1..Len(ham.val) : ~ham.val[i].isDict
             THEN Assertion("Hamiltonian should be a list of dict")
             ELSE IF Len(ham.val) = 0
             THEN Raise("IndexError", <<"list index out of range">>)
             ELSE IF ~HasKey(ham.val[1], OnSiteKey)
             THEN Assertion("Hamiltonian should at least have key 0_0_0_0_0")
             ELSE IF ham.val[1].d[OnSiteKey] \notin {"float32", "complex64"}
             THEN Assertion("The dtype of hamiltonian block should be float real or complex")
             ELSE Ok
        o == IF ~fl.overlap THEN Ok
             ELSE IF ovp.isNone
             THEN Assertion("Overlap should not be None")
             ELSE IF Len(ovp.val) # n_frame
             THEN Assertion("The number of overlap blocks should be equal to the number of frames")
             ELSE Ok
        d == IF ~fl.density_matrix THEN Ok
             ELSE IF dm.isNone
             THEN Assertion("Density matrix should not be None")
             ELSE IF Len(dm.val) # n_frame
             THEN Assertion("The number of density matrix blocks should be equal to the number of frames")
             ELSE Ok
    IN  IF h.kind = "raise" THEN h
        ELSE IF o.kind = "raise" THEN o
        ELSE d

(***************************************************************************)
(* SpecParse: the inputs                                                   *)
(***************************************************************************)
Seeds == {0, 1}

\* The data of an array of the given shape: values vary with the position
\* and the seed; float32 data are multiples of F32Step.
ValueAt(base, seed, dtype) ==
    CASE dtype = "float32" -> F32Step * (((base + seed) % 3) - 1)
      [] dtype = "float64" -> ((base + seed) % 5) - 2
      [] dtype \in {"int32", "int64"} -> 1 + ((base + seed) % 8)
      [] OTHER -> (base + seed) % 2 = 0

RECURSIVE Fill(_, _, _, _)
Fill(shape, base, seed, dtype) ==
    IF shape = <<>>
    THEN ValueAt(base, seed, dtype)
    ELSE [i \in 1..Head(shape) |-> Fill(Tail(shape), base * 4 + i, seed, dtype)]

Arr(shape, dtype, seed) == [shape |-> shape, dtype |-> dtype, data |-> Fill(shape, 0, seed, dtype)]

PosShapes ==
    {<<f, a, 3>> : f \in 0..MaxFrames, a \in 0..MaxAtoms}
        \cup {<<a, 3>> : a \in 0..MaxAtoms} \cup {<<1, 1, 2>>}
CellShapes == {<<f, 3, 3>> : f \in 0..MaxFrames} \cup {<<3, 3>>, <<1, 3, 2>>}
NumberShapes == {<<a>> : a \in 0..MaxAtoms} \cup {<<1, 1>>}
PbcShapes == {<<3>>, <<2>>, <<1, 3>>}

StructureInputs ==
    {[atomic_numbers |-> Arr(ns, nd, 0), pos |-> Arr(ps, pd, 0),
      cell |-> Arr(cs, cd, 0), pbc |-> Arr(bs, bd, 0)] :
        ns \in NumberShapes, nd \in {"int32", "int64"},
        ps \in PosShapes, pd \in {"float32", "float64"},
        cs \in CellShapes, cd \in {"float32", "float64"},
        bs \in PbcShapes, bd \in {"bool", "int64"}}

\* A record check_structure accepts, of f frames and a atoms.
StructureOf(f, a, seed) ==
    [atomic_numbers |-> Arr(<<a>>, "int32", seed), pos |-> Arr(<<f, a, 3>>, "float32", seed),
     cell |-> Arr(<<f, 3, 3>>, "float32", seed), pbc |-> Arr(<<3>>, "bool", seed)]

ElemVals ==
    {NotADict, DictOf(<<>>),
     DictOf([k \in {OnSiteKey} |-> "float32"]), DictOf([k \in {OnSiteKey} |-> "complex64"]),
     DictOf([k \in {OnSiteKey} |-> "float64"]), DictOf([k \in {"0_1_0_0_0"} |-> "float32"])}

BlockLists == UNION {[1..n -> ElemVals] : n \in 0..MaxFrames}

NoBlocks == [ham |-> None, ovp |-> None, dm |-> None]

BlockInputs ==
    {[ham |-> IF h THEN Some(lst) ELSE None, ovp |-> IF o THEN Some(lst) ELSE None,
      dm |-> IF d THEN Some(lst) ELSE None] :
        lst \in BlockLists, h \in BOOLEAN, o \in BOOLEAN, d \in BOOLEAN}

NoResult == [op |-> "none", fl |-> NoFlags, ret |-> Idle, val |-> <<>>]

WriteIdle ==
    /\ backend = <<>> /\ fs = {} /\ store = EmptyStore /\ ret = Idle
    /\ last = NoCall /\ pre = <<>> /\ ncalls = 0

InitParse ==
    /\ \/ srec \in StructureInputs /\ sblocks = NoBlocks
       \/ /\ srec \in {StructureOf(f, a, seed) :
                            f \in 0..MaxFrames, a \in 0..MaxAtoms, seed \in Seeds}
          /\ sblocks = NoBlocks
       \/ srec \in {StructureOf(f, 1, 0) : f \in 0..MaxFrames} /\ sblocks \in BlockInputs
    /\ pres = NoResult
    /\ WriteIdle
    /\ GraphIdle
    /\ StoreIdle

(***************************************************************************)
(* SpecParse: the operations, each applied to the record drawn.            *)
(***************************************************************************)
CheckStructureCall ==
    /\ pres.op = "none"
    /\ pres' = [op |-> "check_structure", fl |-> NoFlags,
                ret |-> check_structure(srec), val |-> <<>>]
    /\ UNCHANGED <<srec, sblocks, wvars, gvars, svars>>

RoundTripCall ==
    /\ pres.op = "none"
    /\ LET r == RoundTrip(srec) IN
       pres' = [op |-> "roundtrip", fl |-> NoFlags, ret |-> r.ret, val |-> r.val]
    /\ UNCHANGED <<srec, sblocks, wvars, gvars, svars>>

CheckBlocksCall ==
    /\ pres.op = "none"
    /\ \E fl \in {f \in Flags : ~f.eigenvalue} :
          pres' = [op |-> "check_blocks", fl |-> fl,
                   ret |-> check_blocks(sblocks.ham, sblocks.ovp, sblocks.dm, srec, fl),
                   val |-> <<>>]
    /\ UNCHANGED <<srec, sblocks, wvars, gvars, svars>>

NextParse == CheckStructureCall \/ RoundTripCall \/ CheckBlocksCall

SpecParse == InitParse /\ [][NextParse]_vars

(***************************************************************************)
(* Claims checked under SpecParse                                          *)
(***************************************************************************)
\* The records the structure contract admits.
WellFormed(s) ==
    /\ Len(s.pos.shape) = 3 /\ s.pos.shape[3] = 3 /\ s.pos.dtype = "float32"
    /\ s.cell.shape = <<s.pos.shape[1], 3, 3>> /\ s.cell.dtype = "float32"
    /\ s.atomic_numbers.shape = <<s.pos.shape[2]>> /\ s.atomic_numbers.dtype = "int32"
    /\ s.pbc.shape = <<3>> /\ s.pbc.dtype = "bool"

SameFields(a, b) ==
    /\ a.pos = b.pos
    /\ a.cell = b.cell
    /\ a.atomic_numbers = b.atomic_numbers
    /\ a.pbc = b.pbc

\* C7 (as claimed): for every record check_structure accepts, the round
\* trip through the ase form returns a record with the same positions,
\* cell, atomic numbers and periodic flags (values, shapes and dtypes).
C7_RoundTripAnyRecord ==
    (pres.op = "roundtrip" /\ check_structure(srec) = Ok) =>
        (pres.ret = Ok /\ SameFields(pres.val, srec))

\* C7 (amended): the same for every accepted record of at least one frame.
C7_RoundTripAtLeastOneFrame ==
    (pres.op = "roundtrip" /\ check_structure(srec) = Ok /\ srec.pos.shape[1] >= 1) =>
        (pres.ret = Ok /\ SameFields(pres.val, srec))

C7_Witness ==
    /\ pres.op = "roundtrip"
    /\ check_structure(srec) = Ok
    /\ srec.pos.shape = <<2, 2, 3>>
    /\ pres.ret = Ok
    /\ pres.val.pos.data[1] # pres.val.pos.data[2]

BlocksWellFormed(blocks, n_frame) ==
    /\ ~blocks.isNone
    /\ Len(blocks.val) = n_frame
    /\ \A i \in 1..Len(blocks.val) :
          /\ blocks.val[i].isDict
          /\ HasKey(blocks.val[i], OnSiteKey)
          /\ blocks.val[i].d[OnSiteKey] \in {"float32", "complex64"}

\* C9 (as claimed): check_blocks passes only if every requested block list
\* is not None, has one element per frame, every element is a mapping and
\* holds the on-site key with dtype float32 or complex64 - for the
\* Hamiltonian in every frame, not only the first.
C9_CheckBlocksPassesOnlyWellFormed ==
    (pres.op = "check_blocks" /\ pres.ret = Ok) =>
        /\ pres.fl.hamiltonian => BlocksWellFormed(sblocks.ham, srec.pos.shape[1])
        /\ pres.fl.overlap => BlocksWellFormed(sblocks.ovp, srec.pos.shape[1])
        /\ pres.fl.density_matrix => BlocksWellFormed(sblocks.dm, srec.pos.shape[1])

(***************************************************************************)
(* The atomic-graph data model (AtomicDataDict.py).  A record is a mapping *)
(* from field names to arrays: pos is a sequence of 3-vectors, an index    *)
(* array the pair <<sources, targets>> of 0-based atom numbers, a cell     *)
(* shift a sequence of 3-vectors, batch a sequence of 0-based graph        *)
(* numbers, and cell an array of shape (3, 3) or (n, 3, 3).  Lengths are   *)
(* integers in units of 1e-10, so that the tolerance of the cell test is 1.*)
(***************************************************************************)
BATCH_KEY == "batch"
BATCH_PTR_KEY == "ptr"

EdgeRel == [index |-> "edge_index", shift |-> "edge_cell_shift",
            vec |-> "edge_vectors", len |-> "edge_lengths", normKw |-> "axis"]
EnvRel == [index |-> "env_index", shift |-> "env_cell_shift",
           vec |-> "env_vectors", len |-> "env_lengths", normKw |-> "dim"]
OnsitenvRel == [index |-> "onsitenv_index", shift |-> "onsitenv_cell_shift",
                vec |-> "onsitenv_vectors", len |-> "onsitenv_lengths", normKw |-> "dim"]

CellTol == 1    \* the 1e-10 of the cell test

Has(data, key) == key \in DOMAIN data

\* (mutant) the field is read with data.get(key) and the None is indexed
KeyErrorAsTypeError(key) == Raise("TypeError", <<"'NoneType' object is not subscriptable">>)

\* data[key] on a missing key
KeyError(key) == Raise("KeyError", <<key>>)

VSub(a, b) == [j \in 1..3 |-> a[j] - b[j]]
VAdd(a, b) == [j \in 1..3 |-> a[j] + b[j]]

\* einsum "i,ij->j": the shift times the cell, cell rows being the lattice
\* vectors.
ShiftTimesCell(shift, cell) ==
    [j \in 1..3 |-> shift[1] * cell[1][j] + shift[2] * cell[2][j] + shift[3] * cell[3][j]]

Abs(x) == IF x < 0 THEN -x ELSE x

RECURSIVE AbsSum(_, _)
AbsSum(d, rank) ==
    IF rank = 0 THEN Abs(d)
    ELSE IF Len(d) = 0 THEN 0
    ELSE AbsSum(Head(d), rank - 1) + AbsSum(Tail(d), rank)

\* np.linalg.norm(v, axis=-1) of one vector, rounded down to the unit.
ISqrt(n) == CHOOSE r \in 0..n : r * r <= n /\ (r + 1) * (r + 1) > n
Norm(v) == ISqrt(v[1] * v[1] + v[2] * v[2] + v[3] * v[3])
Norms(vecs) == [e \in 1..Len(vecs) |-> Norm(vecs[e])]

\* cell.reshape(-1, 3, 3): the sequence of the cells.
Reshape(cell) == IF Len(cell.shape) = 2 THEN <<cell.data>> ELSE cell.data

\* (mutant) every pair is corrected with the first cell
PairCellFirst(cells, batch, source) == cells[1]

\* cell[batch[edge_index[0]]] for one pair
PairCell(cells, batch, source) == cells[batch[source + 1] + 1]

\* (mutant) the length is completed whether or not it was asked for
MemoLengthAlways(data, rel, with_lengths) == ~Has(data, rel.len)

\* "if with_lengths and LENGTH_KEY not in data" of the memoized branch
MemoLengthWanted(data, rel, with_lengths) == with_lengths /\ ~Has(data, rel.len)

\* The three with_*_vectors functions are one text apart from the fields
\* they read and the keyword of the last norm call; rel gives both.
WithVectors(rel, data, with_lengths) ==
    IF Has(data, rel.vec)
    THEN [data |-> IF MemoLengthWanted(data, rel, with_lengths)
                   THEN Put(data, rel.len, Norms(data[rel.vec]))
                   ELSE data,
          ret |-> Ok]
    ELSE IF ~Has(data, POSITIONS_KEY) THEN [data |-> data, ret |-> KeyError(POSITIONS_KEY)]
    ELSE IF ~Has(data, rel.index) THEN [data |-> data, ret |-> KeyError(rel.index)]
    ELSE
    LET pos == data[POSITIONS_KEY]
        index == data[rel.index]
        n_edge == Len(index[1])
        plain == [e \in 1..n_edge |-> VSub(pos[index[2][e] + 1], pos[index[1][e] + 1])]
        periodic == Has(data, CELL_KEY)
                    /\ AbsSum(data[CELL_KEY].data, Len(data[CELL_KEY].shape)) > CellTol
        cell == Reshape(data[CELL_KEY])
        cell_shift == data[rel.shift]
        batch == data[BATCH_KEY]
        vec == IF ~periodic THEN plain
               ELSE IF Len(cell) > 1
               THEN [e \in 1..n_edge |->
                        VAdd(plain[e],
                             ShiftTimesCell(cell_shift[e], PairCell(cell, batch, index[1][e])))]
               ELSE [e \in 1..n_edge |-> VAdd(plain[e], ShiftTimesCell(cell_shift[e], cell[1]))]
        stored == Put(data, rel.vec, vec)
    IN  IF periodic /\ ~Has(data, rel.shift) THEN [data |-> data, ret |-> KeyError(rel.shift)]
        ELSE IF periodic /\ Len(cell) > 1 /\ ~Has(data, BATCH_KEY)
        THEN [data |-> data, ret |-> KeyError(BATCH_KEY)]
        ELSE IF ~with_lengths THEN [data |-> stored, ret |-> Ok]
        ELSE IF rel.normKw = "axis"
        THEN [data |-> Put(stored, rel.len, Norms(vec)), ret |-> Ok]
        ELSE \* np.linalg.norm(env_vec, dim=-1): norm takes no keyword dim
             [data |-> stored,
              ret |-> Raise("TypeError", <<"norm() got an unexpected keyword argument 'dim'">>)]

with_edge_vectors(data, with_lengths) == WithVectors(EdgeRel, data, with_lengths)
with_env_vectors(data, with_lengths) == WithVectors(EnvRel, data, with_lengths)
with_onsitenv_vectors(data, with_lengths) == WithVectors(OnsitenvRel, data, with_lengths)

\* np.arange(start=0, stop=n + 1, step=n): a zero step is an error.
Arange0(n) ==
    IF n = 0
    THEN [ret |-> Raise("ZeroDivisionError", <<"division by zero">>), val |-> <<>>]
    ELSE [ret |-> Ok, val |-> <<0, n>>]

with_batch(data) ==
    IF Has(data, BATCH_KEY) THEN [data |-> data, ret |-> Ok]
    ELSE IF ~Has(data, POSITIONS_KEY) THEN [data |-> data, ret |-> KeyError(POSITIONS_KEY)]
    ELSE
    LET pos == data[POSITIONS_KEY]
        batch == [i \in 1..Len(pos) |-> 0]
        stored == Put(data, BATCH_KEY, batch)
        ptr == Arange0(Len(pos))
    IN  IF ptr.ret.kind = "raise" THEN [data |-> stored, ret |-> ptr.ret]
        ELSE [data |-> Put(stored, BATCH_PTR_KEY, ptr.val), ret |-> Ok]

(***************************************************************************)
(* SpecGraph: the records drawn                                            *)
(***************************************************************************)
Relations == {EdgeRel, EnvRel, OnsitenvRel}

PosAt(i) == <<i, -i, i * i>>

ShiftAt(e) == <<e % 2, -(e % 2), (e % 3) - 1>>

ZeroCell == <<<<0, 0, 0>>, <<0, 0, 0>>, <<0, 0, 0>>>>
\* a cell whose entries sum to the tolerance exactly
TinyCell == <<<<CellTol, 0, 0>>, <<0, 0, 0>>, <<0, 0, 0>>>>
\* the cell of graph g of a batch (g = 1, 2, ...): no two alike
CellAt(g) == <<<<2 * g + 1, 0, 0>>, <<g, 3, 0>>, <<0, -1, 4 + g>>>>

CellChoices ==
    {None, Some([shape |-> <<3, 3>>, data |-> CellAt(1)])}
        \cup {Some([shape |-> <<1, 3, 3>>, data |-> <<c>>]) : c \in {ZeroCell, TinyCell, CellAt(1)}}
        \cup {Some([shape |-> <<k, 3, 3>>, data |-> [g \in 1..k |-> CellAt(g)]]) : k \in 2..MaxCells}

NCells(cell) == IF cell.isNone THEN 1 ELSE Len(Reshape(cell.val))

\* no batch, every atom in graph 0, or the atoms dealt to the graphs in turn
BatchChoices(n, cell) ==
    {None, Some([i \in 1..n |-> 0]), Some([i \in 1..n |-> (i - 1) % NCells(cell)])}

\* The pairs of a relation: at most MaxEdges different (source, target)
\* pairs of the n atoms, in an increasing order of source * n + target.
PairSeqs(n) ==
    UNION {{s \in [1..m -> 0..(n * n - 1)] : \A i \in 1..(m - 1) : s[i] < s[i + 1]} :
              m \in 0..MaxEdges}

IndexOf(s, n) == <<[e \in 1..Len(s) |-> s[e] \div n], [e \in 1..Len(s) |-> s[e] % n]>>

EmptyRecord == [k \in {} |-> 0]

Field(present, key, value) == IF present THEN key :> value ELSE EmptyRecord

GraphRecord(n, pairs, rel, hasShift, cell, batch, hasPos) ==
    Field(hasPos, POSITIONS_KEY, [i \in 1..n |-> PosAt(i)])
        @@ (rel.index :> IndexOf(pairs, n))
        @@ Field(hasShift, rel.shift, [e \in 1..Len(pairs) |-> ShiftAt(e)])
        @@ Field(~cell.isNone, CELL_KEY, cell.val)
        @@ Field(~batch.isNone, BATCH_KEY, batch.val)

\* Records that already carry a relation's vectors and no positions: the
\* vectors were computed elsewhere.
MemoInputs ==
    {GraphRecord(MaxAtoms, pairs, rel, FALSE, None, None, FALSE)
        @@ (rel.vec :> [e \in 1..Len(pairs) |-> ShiftAt(e)]) :
            pairs \in PairSeqs(MaxAtoms), rel \in Relations}

GraphInputs ==
    {GraphRecord(c[1], c[2], c[3], c[4], c[5], c[6], TRUE) :
        c \in UNION {UNION {{<<n, pairs, rel, hasShift, cell, batch>> :
                               pairs \in PairSeqs(n), rel \in Relations,
                               hasShift \in BOOLEAN, batch \in BatchChoices(n, cell)} :
                            cell \in CellChoices} : n \in 0..MaxAtoms}}
        \cup {GraphRecord(n, pairs, rel, FALSE, None, None, FALSE) :
                n \in {MaxAtoms}, pairs \in PairSeqs(MaxAtoms), rel \in Relations}
        \cup MemoInputs

NoGraphCall == [op |-> "none", flag |-> FALSE, ret |-> Idle, repeat |-> FALSE]

InitGraph ==
    /\ ginput \in GraphInputs
    /\ grec = ginput
    /\ gbefore = ginput
    /\ gres = NoGraphCall
    /\ WriteIdle
    /\ ParseIdle
    /\ StoreIdle

(***************************************************************************)
(* SpecGraph: the calls.  Each call updates the caller's record in place;  *)
(* gres.repeat says that the call before was the same call and returned.   *)
(***************************************************************************)
GraphCall(op, flag, r) ==
    /\ grec' = r.data
    /\ gbefore' = grec
    /\ gres' = [op |-> op, flag |-> flag, ret |-> r.ret,
                repeat |-> (gres.op = op /\ gres.flag = flag /\ gres.ret = Ok)]
    /\ UNCHANGED <<ginput, wvars, pvars, svars>>

WithEdgeVectorsCall ==
    \E with_lengths \in BOOLEAN :
        GraphCall("with_edge_vectors", with_lengths, with_edge_vectors(grec, with_lengths))

WithEnvVectorsCall ==
    \E with_lengths \in BOOLEAN :
        GraphCall("with_env_vectors", with_lengths, with_env_vectors(grec, with_lengths))

WithOnsitenvVectorsCall ==
    \E with_lengths \in BOOLEAN :
        GraphCall("with_onsitenv_vectors", with_lengths, with_onsitenv_vectors(grec, with_lengths))

WithBatchCall == GraphCall("with_batch", FALSE, with_batch(grec))

NextGraph ==
    WithEdgeVectorsCall \/ WithEnvVectorsCall \/ WithOnsitenvVectorsCall \/ WithBatchCall

SpecGraph == InitGraph /\ [][NextGraph]_vars

(***************************************************************************)
(* SpecGraph: the claims                                                   *)
(***************************************************************************)
RelOf(op) ==
    IF op = "with_edge_vectors" THEN EdgeRel
    ELSE IF op = "with_env_vectors" THEN EnvRel
    ELSE OnsitenvRel

VectorOps == {"with_edge_vectors", "with_env_vectors", "with_onsitenv_vectors"}

ZeroVec == <<0, 0, 0>>

AllZero(cell) == \A c \in 1..Len(Reshape(cell)) : Reshape(cell)[c] = ZeroCell

Negligible(cell) == AbsSum(cell.data, Len(cell.shape)) <= CellTol

\* What a record must hold for the correction C(e) to be defined, the cell
\* counting as no cell when flat says so.
Derivable(d, rel, flat(_)) ==
    /\ Has(d, POSITIONS_KEY)
    /\ Has(d, rel.index)
    /\ (Has(d, CELL_KEY) /\ ~flat(d[CELL_KEY])) =>
          /\ Has(d, rel.shift)
          /\ Len(Reshape(d[CELL_KEY])) > 1 => Has(d, BATCH_KEY)

\* The correction of pair e, computed pair by pair.
Correction(d, rel, e, flat(_)) ==
    IF ~Has(d, CELL_KEY) \/ flat(d[CELL_KEY]) THEN ZeroVec
    ELSE LET cells == Reshape(d[CELL_KEY])
             source == d[rel.index][1][e]
             own == IF Len(cells) = 1 THEN cells[1] ELSE cells[d[BATCH_KEY][source + 1] + 1]
         IN  ShiftTimesCell(d[rel.shift][e], own)

Reference(d, rel, flat(_)) ==
    [e \in 1..Len(d[rel.index][1]) |->
        VAdd(VSub(d[POSITIONS_KEY][d[rel.index][2][e] + 1],
                  d[POSITIONS_KEY][d[rel.index][1][e] + 1]),
             Correction(d, rel, e, flat))]

EdgeVectorsAre(flat(_)) ==
    (/\ gres.op = "with_edge_vectors"
     /\ ~Has(gbefore, EdgeRel.vec)
     /\ Derivable(gbefore, EdgeRel, flat))
        => /\ gres.ret = Ok
           /\ Has(grec, EdgeRel.vec)
           /\ grec[EdgeRel.vec] = Reference(gbefore, EdgeRel, flat)

\* C4 (as stated): on a record without the edge-vector field,
\* with_edge_vectors stores for every edge positions[target] -
\* positions[source] + shift . C(e), where C(e) is zero when the cell is
\* absent or all-zero, the single cell when there is one cell, and
\* cell[batch[source]] when there are several.
C4_EdgeVectorsAllZeroCell == EdgeVectorsAre(AllZero)

\* C4 (amended): the same, C(e) being zero when the cell is absent or the
\* sum of the absolute values of its entries is at most 1e-10; every edge of
\* a batch of several cells is corrected with the cell of its own source.
C4_EdgeVectorsNegligibleCell == EdgeVectorsAre(Negligible)

\* an edge of the second sub-structure of a batch got a vector that the
\* first sub-structure's cell would not have given
C4_Witness ==
    /\ gres.op = "with_edge_vectors"
    /\ gres.ret = Ok
    /\ ~Has(gbefore, EdgeRel.vec)
    /\ Derivable(gbefore, EdgeRel, Negligible)
    /\ Has(gbefore, CELL_KEY)
    /\ Len(Reshape(gbefore[CELL_KEY])) = 2
    /\ \E e \in 1..Len(gbefore[EdgeRel.index][1]) :
          LET source == gbefore[EdgeRel.index][1][e]
              target == gbefore[EdgeRel.index][2][e]
              pos == gbefore[POSITIONS_KEY]
          IN  /\ gbefore[BATCH_KEY][source + 1] = 1
              /\ grec[EdgeRel.vec][e] /=
                    VAdd(VSub(pos[target + 1], pos[source + 1]),
                         ShiftTimesCell(gbefore[EdgeRel.shift][e], Reshape(gbefore[CELL_KEY])[1]))

\* C5: a derivation called again with the same flag, right after a call
\* that succeeded, succeeds and leaves the record as the first call left it
\* (same keys, same values), for each relation and each flag.
C5_SecondCallChangesNothing ==
    (gres.op \in VectorOps /\ gres.repeat) => (gres.ret = Ok /\ grec = gbefore)

\* second calls with and without lengths on a record with edges
C5_Witness ==
    /\ gres.op \in VectorOps
    /\ gres.repeat
    /\ ~gres.flag
    /\ Has(grec, RelOf(gres.op).vec)
    /\ Len(grec[RelOf(gres.op).vec]) > 0
    /\ ~Has(grec, RelOf(gres.op).len)

\* C6: on a record with positions and no batch index, whatever the atom
\* count (zero included), with_batch completes and leaves a batch index of
\* n_atom zeros and the pointer [0, n_atom]; a record with a batch index is
\* returned unchanged.
C6_WithBatchAnyAtomCount ==
    gres.op = "with_batch" =>
        /\ Has(gbefore, BATCH_KEY) => (gres.ret = Ok /\ grec = gbefore)
        /\ (~Has(gbefore, BATCH_KEY) /\ Has(gbefore, POSITIONS_KEY)) =>
              /\ gres.ret = Ok
              /\ Has(grec, BATCH_KEY)
              /\ grec[BATCH_KEY] = [i \in 1..Len(gbefore[POSITIONS_KEY]) |-> 0]
              /\ Has(grec, BATCH_PTR_KEY)
              /\ grec[BATCH_PTR_KEY] = <<0, Len(gbefore[POSITIONS_KEY])>>

\* C10: for each of the three relations, on a record with positions and the
\* relation's index (and the shift and batch a cell calls for) but without
\* the relation's vector field, derivation with lengths completes and
\* stores the vectors and, under the length field, the norm of each.
C10_LengthsForEveryRelation ==
    (/\ gres.op \in VectorOps
     /\ gres.flag
     /\ ~Has(gbefore, RelOf(gres.op).vec)
     /\ Derivable(gbefore, RelOf(gres.op), Negligible))
        => /\ gres.ret = Ok
           /\ Has(grec, RelOf(gres.op).vec)
           /\ grec[RelOf(gres.op).vec] = Reference(gbefore, RelOf(gres.op), Negligible)
           /\ Has(grec, RelOf(gres.op).len)
           /\ grec[RelOf(gres.op).len] = Norms(grec[RelOf(gres.op).vec])

\* the call was a derivation on a record without positions or without the
\* relation's index
MissingGeometry ==
    /\ gres.op \in VectorOps
    /\ ~Has(gbefore, POSITIONS_KEY) \/ ~Has(gbefore, RelOf(gres.op).index)

FailedNamingAbsentKey ==
    /\ gres.ret.kind = "raise"
    /\ gres.ret.exc = "KeyError"
    /\ \E key \in {POSITIONS_KEY, RelOf(gres.op).index} :
          ~Has(gbefore, key) /\ gres.ret.msg = <<key>>
    /\ grec = gbefore

\* C11 (as stated): when positions or the relation's index is absent from
\* the record, the derivation fails with a KeyError naming an absent key
\* and the record is left as it was.
C11_MissingGeometryAlwaysFails == MissingGeometry => FailedNamingAbsentKey

\* C11 (amended): the same, for records that do not already hold the
\* relation's vector field.
C11_MissingGeometryFailsUnlessMemoized ==
    (MissingGeometry /\ ~Has(gbefore, RelOf(gres.op).vec)) => FailedNamingAbsentKey

\* positions are there, the index of the relation asked for is not
C11_Witness ==
    /\ MissingGeometry
    /\ ~Has(gbefore, RelOf(gres.op).vec)
    /\ Has(gbefore, POSITIONS_KEY)
    /\ gres.ret = KeyError(RelOf(gres.op).index)
    /\ grec = gbefore

\* C12: no data-model operation (with_edge_vectors, with_env_vectors,
\* with_onsitenv_vectors, with_batch) modifies the mapping it is given:
\* after the call the caller's mapping has the keys and values it had
\* before.  (grec is that mapping: the functions assign into data and
\* return data itself.)
C12_CallerMappingUntouched ==
    gres.op \in VectorOps \cup {"with_batch"} => grec = gbefore

(***************************************************************************)
(* Further claims checked under SpecWrite                                  *)
(***************************************************************************)
\* The files the last call created in the directory of source idx.
NewFilesOf(idx) ==
    {path \in fs \ pre.fs :
        /\ Len(path) = Len(FrameDir(idx)) + 1
        /\ SubSeq(path, 1, Len(FrameDir(idx))) = FrameDir(idx)}

\* The last call raised because the eigenvalue validation failed or because
\* a requested block type came back as None.
AbortedOnValidation ==
    \/ last.fl.eigenvalue /\ backend.eig = "f64" /\ ret.kind = "raise"
            /\ ret.exc = "AssertionError"
    \/ (last.fl.hamiltonian \/ last.fl.overlap \/ last.fl.density_matrix)
            /\ backend.blk = "none" /\ ret.kind = "raise" /\ ret.exc = "TypeError"

\* C13: a write call (dat, ase or lmdb) that aborts with an error has
\* persisted nothing of its source: no structure file, basis.dat, .npy or
\* .h5 file of the source was created, and no entry was put in the store.
C13_AbortedWritePersistsNothing ==
    (/\ last.op = "write"
     /\ last.format \in {"dat", "ase", "lmdb"}
     /\ AbortedOnValidation)
        => /\ NewFilesOf(last.idx) = {}
           /\ store = pre.store

(***************************************************************************)
(* SpecStore: processes running write_lmdb, step by step.                  *)
(* A call opens the environment of its path (data.<pid>.lmdb, lock=True)   *)
(* and runs one write transaction per frame: begin(write=True), read the   *)
(* entry count, put, commit.  LMDB admits one write transaction at a time  *)
(* on an environment opened with its lock file, across processes, and      *)
(* stat() inside the transaction reports the last committed count.         *)
(***************************************************************************)
Procs == {1, 2}

\* Two processes have different pids, unless they run in different pid
\* namespaces over one directory.
Pids == {Pid, Pid + 1}

StoreFlags == {[NoFlags EXCEPT !.hamiltonian = TRUE]}

IdleProc(pid) ==
    [pid |-> pid, pc |-> "idle", idx |-> -1, fl |-> NoFlags, nf |-> 0, calls |-> 0,
     key |-> <<>>]

InitStore ==
    /\ backend \in [nframes : [Sources -> 0..MaxFrames], blk : {"lists", "none"}, eig : {"ok"}]
    /\ fs = {} /\ store = EmptyStore /\ ret = Idle
    /\ last = NoCall /\ pre = <<>> /\ ncalls = 0
    /\ stores = [pid \in Pids |-> EmptyStore]
    /\ \E pid \in Pids : procs = [p \in Procs |-> IdleProc(IF p = 1 THEN Pid ELSE pid)]
    /\ lock = 0
    /\ puts = <<>>
    /\ ParseIdle
    /\ GraphIdle

\* (mutant) the environment is opened with lock=False: a write transaction
\* begins whether or not another process is inside one
CanBeginUnlocked(holder) == TRUE

\* lmdb_env.begin(write=True) on an environment opened with lock=True:
\* blocks while another write transaction is open
CanBegin(holder) == holder = 0

\* data_dict of the frame the process is at
ProcItems(p) ==
    FrameItems(procs[p].idx, procs[p].nf, procs[p].fl, get_structure(procs[p].idx),
               get_eigenvalue(procs[p].idx).val,
               get_blocks(procs[p].idx, procs[p].fl.hamiltonian, procs[p].fl.overlap,
                          procs[p].fl.density_matrix))

\* Process 1 makes a sequence of calls; process 2 is a competitor that makes
\* one.
CallLimit(p) == IF p = 1 THEN MaxStoreCalls ELSE 1

\* lines 296-305: the queries of the backend and lmdb.open
StartCall(p) ==
    /\ procs[p].pc = "idle"
    /\ procs[p].calls < CallLimit(p)
    /\ \E idx \in Sources, fl \in StoreFlags :
          procs' = [procs EXCEPT ![p] = [@ EXCEPT !.pc = "loop", !.idx = idx, !.fl = fl,
                                                  !.nf = 0, !.calls = @ + 1]]
    /\ UNCHANGED <<stores, lock, puts, wvars, pvars, gvars>>

\* the loop is over (lmdb_env.close, line 334), or building data_dict
\* raises and the call is abandoned
EndCall(p) ==
    /\ procs[p].pc = "loop"
    /\ \/ procs[p].nf >= backend.nframes[procs[p].idx]
       \/ /\ procs[p].nf < backend.nframes[procs[p].idx]
          /\ ProcItems(p).ret.kind = "raise"
    /\ procs' = [procs EXCEPT ![p].pc = "idle"]
    /\ UNCHANGED <<stores, lock, puts, wvars, pvars, gvars>>

\* line 330: with lmdb_env.begin(write=True) as txn
TxnBegin(p) ==
    /\ procs[p].pc = "loop"
    /\ procs[p].nf < backend.nframes[procs[p].idx]
    /\ ProcItems(p).ret.kind = "ok"
    /\ CanBegin(lock)
    /\ lock' = p
    /\ procs' = [procs EXCEPT ![p].pc = "stat"]
    /\ UNCHANGED <<stores, puts, wvars, pvars, gvars>>

\* line 331: entries = lmdb_env.stat()["entries"], made the key of line 332
TxnStat(p) ==
    /\ procs[p].pc = "stat"
    /\ procs' = [procs EXCEPT ![p] = [@ EXCEPT !.pc = "put", !.key = NextKey(stores[procs[p].pid])]]
    /\ UNCHANGED <<stores, lock, puts, wvars, pvars, gvars>>

\* line 332 and the commit at the end of the with block
TxnPut(p) ==
    /\ procs[p].pc = "put"
    /\ stores' = [stores EXCEPT ![procs[p].pid] =
                     Put(@, procs[p].key, dumps(ProcItems(p).items))]
    /\ puts' = Append(puts, [proc |-> p, pid |-> procs[p].pid, call |-> procs[p].calls,
                             idx |-> procs[p].idx, nf |-> procs[p].nf,
                             key |-> procs[p].key,
                             fresh |-> procs[p].key \notin DOMAIN stores[procs[p].pid]])
    /\ procs' = [procs EXCEPT ![p] = [@ EXCEPT !.pc = "loop", !.nf = @ + 1]]
    /\ lock' = IF lock = p THEN 0 ELSE lock
    /\ UNCHANGED <<wvars, pvars, gvars>>

NextStore ==
    \E p \in Procs : StartCall(p) \/ EndCall(p) \/ TxnBegin(p) \/ TxnStat(p) \/ TxnPut(p)

SpecStore == InitStore /\ [][NextStore]_vars

(***************************************************************************)
(* Claims checked under SpecStore                                          *)
(***************************************************************************)
PutsTo(pid) == SelectSeq(puts, LAMBDA e : e.pid = pid)

PutsBy(p) == SelectSeq(puts, LAMBDA e : e.proc = p)

SharedPath == procs[1].pid = procs[2].pid

Finished(p) == procs[p].pc = "idle" /\ procs[p].calls = CallLimit(p)

Alone(p) == \A i \in 1..Len(puts) : puts[i].pid = procs[p].pid => puts[i].proc = p

\* C15: for a process that is the only writer of its store, starting from
\* the empty store: no put targets a key that exists; the k-th put (calls
\* in call order, frames in frame order within a call) has key k-1 and its
\* record stays under that key; and between calls the key set is
\* {0, ..., N-1}, N the number of frames written.
C15_SingleProcessKeysSequential ==
    \A p \in Procs :
        Alone(p) =>
            LET mine == PutsTo(procs[p].pid)
                st == stores[procs[p].pid]
            IN  /\ \A i \in 1..Len(mine) :
                      /\ mine[i].fresh
                      /\ mine[i].key = to_bytes(i - 1)
                      /\ mine[i].key \in DOMAIN st
                      /\ loads(st[mine[i].key])["idx"] = mine[i].idx
                      /\ loads(st[mine[i].key])["nf"] = mine[i].nf
                /\ \A i \in 1..(Len(mine) - 1) :
                      \/ mine[i + 1].call = mine[i].call /\ mine[i + 1].nf = mine[i].nf + 1
                      \/ mine[i + 1].call > mine[i].call /\ mine[i + 1].nf = 0
                /\ procs[p].pc = "idle" =>
                      /\ \A key \in DOMAIN st : IsKey4(key)
                      /\ {BigEndianValue(key) : key \in DOMAIN st} = 0..(Len(mine) - 1)

\* process 1, alone on its path, has completed two calls for different
\* sources, the first of two frames
C15_Witness ==
    /\ ~SharedPath
    /\ Finished(1)
    /\ Len(PutsBy(1)) >= 3
    /\ PutsBy(1)[1].call = 1 /\ PutsBy(1)[2].call = 1 /\ PutsBy(1)[3].call = 2
    /\ PutsBy(1)[1].idx # PutsBy(1)[3].idx
    /\ Entries(stores[Pid]) = Len(PutsBy(1))

====
